---- MODULE Spec2Model ----
(***************************************************************************)
(* gitplz: bulk git operations over the repositories found under a         *)
(* working directory.                                                      *)
(*                                                                         *)
(*   manifestlib/src/manifest.rs  ManifestData, Manifest (open,            *)
(*                                add_repositories, get_file)              *)
(*   src/main.rs                  main, process, checkout, reset, status,  *)
(*                                manifest_generate, manifest_preview      *)
(*                                                                         *)
(* Paths are sequences of components; a component is a small natural       *)
(* number (1 = "a", 2 = "b", ...), so that Path::strip_prefix, Path::join  *)
(* and the component-wise order of BTreeSet<PathBuf> are computed as the   *)
(* standard library computes them.  All paths are valid Unicode.           *)
(***************************************************************************)
EXTENDS Naturals, Sequences, FiniteSets, TLC

VARIABLES
    doc,        \* the manifest document on disk (manifest.rs: Manifest.path)
    manifest,   \* the Manifest value held by the running command
    merged,     \* history: absolute paths ever handed to ManifestData::add
    lastCall,   \* history: the last library call, its inputs and what it hit
    pc,         \* main.rs: position of the process
    cmd,        \* main.rs: the subcommand given on the command line
    option,     \* main.rs: RunOption decoded from cmd
    repos,      \* main.rs: number of handles GitRepositories::new yielded
    idx,        \* main.rs: handles consumed by the for loop of process
    calls,      \* history: git capability calls made, with their results
    out,        \* lines printed to stdout by the run
    walked,     \* history: GitRepositories::new walked the filesystem
    manifestFile \* the line-based manifest.txt written by manifest generate

libvars == <<doc, manifest, merged, lastCall>>
clivars == <<pc, cmd, option, repos, idx, calls, out, walked, manifestFile>>
vars == <<doc, manifest, merged, lastCall,
          pc, cmd, option, repos, idx, calls, out, walked, manifestFile>>

(***************************************************************************)
(* Bounds.                                                                 *)
(***************************************************************************)
\* handles in one GitRepositories sequence given to add_repositories
MaxHandles == 2
\* repositories one filesystem walk yields
MaxRepos == 3

(***************************************************************************)
(* Paths.                                                                  *)
(***************************************************************************)
\* The absolute paths used as inputs: /a, /b, /a/a, /a/b, /a/a/b.
AllPaths == { <<1>>, <<2>>, <<1, 1>>, <<1, 2>>, <<1, 1, 2>> }

\* The roots a manifest is opened with: /a and /a/a.
Roots == { <<1>>, <<1, 1>> }

\* Path::starts_with, component-wise.
IsPrefix(base, p) ==
    /\ Len(base) <= Len(p)
    /\ \A i \in 1..Len(base) : p[i] = base[i]

\* Mutant of StripPrefix: the leading components are dropped without being
\* compared with base.
StripPrefixUnchecked(p, base) ==
    [ok |-> TRUE, rest |-> SubSeq(p, Len(base) + 1, Len(p))]

\* Path::strip_prefix: Ok(rest) when base is a component-wise prefix of p
\* (the rest is empty when p = base), Err(StripPrefixError) otherwise.
StripPrefix(p, base) ==
    IF IsPrefix(base, p)
    THEN [ok |-> TRUE, rest |-> SubSeq(p, Len(base) + 1, Len(p))]
    ELSE [ok |-> FALSE, rest |-> <<>>]

\* Ord for Path: lexicographic over components, a proper prefix first.
RECURSIVE PathLess(_, _)
PathLess(p, q) ==
    IF p = <<>> THEN q # <<>>
    ELSE IF q = <<>> THEN FALSE
    ELSE IF Head(p) # Head(q) THEN Head(p) < Head(q)
    ELSE PathLess(Tail(p), Tail(q))

Range(s) == { s[i] : i \in 1..Len(s) }

\* Sequences over S of length at most n.
SeqsUpTo(S, n) == UNION { [1..k -> S] : k \in 0..n }

(***************************************************************************)
(* manifest.rs: ManifestData.                                              *)
(***************************************************************************)
\* ManifestData::empty
Empty(root) == [root_path |-> root, repositories |-> {}]

\* ManifestData::add: the relative path is inserted when strip_prefix
\* succeeds; otherwise four diagnostic lines are printed and the set is left
\* as it was.
Add(data, repoPath) ==
    LET path_strip == StripPrefix(repoPath, data.root_path)
    IN  IF path_strip.ok
        THEN [data EXCEPT !.repositories = @ \cup {path_strip.rest}]
        ELSE data

\* The for loop of add_repositories.
RECURSIVE AddAll(_, _)
AddAll(data, handles) ==
    IF handles = <<>> THEN data
    ELSE AddAll(Add(data, Head(handles)), Tail(handles))

\* The handles of a sequence for which ManifestData::add printed diagnostics.
Logged(data, handles) ==
    { h \in Range(handles) : ~StripPrefix(h, data.root_path).ok }

\* Iteration order of BTreeSet<PathBuf>, as serde writes the array.
RECURSIVE SortedSeq(_)
SortedSeq(S) ==
    IF S = {} THEN <<>>
    ELSE LET m == CHOOSE x \in S : \A y \in S : x = y \/ PathLess(x, y)
         IN  <<m>> \o SortedSeq(S \ {m})

\* serde_json::to_string_pretty(&self.data): root_path and the sorted array.
Serialize(data) ==
    [state |-> "json", root_path |-> data.root_path,
     repositories |-> SortedSeq(data.repositories)]

\* serde_json::from_reader into ManifestData: the array collected in a set.
Deserialize(d) ==
    [root_path |-> d.root_path, repositories |-> Range(d.repositories)]

AbsentDoc == [state |-> "absent", root_path |-> <<>>, repositories |-> <<>>]
\* A document serde_json cannot parse (empty, truncated or foreign).
GarbageDoc == [state |-> "garbage", root_path |-> <<>>, repositories |-> <<>>]

NoManifest == [state |-> "none", root_path |-> <<>>, repositories |-> {}]
Panicked == [state |-> "panicked", root_path |-> <<>>, repositories |-> {}]
Opened(data) ==
    [state |-> "open", root_path |-> data.root_path,
     repositories |-> data.repositories]
Data(m) == [root_path |-> m.root_path, repositories |-> m.repositories]

NoCall == [op |-> "none", root |-> <<>>, handles |-> {}, fs |-> "ok",
           logged |-> {}, before |-> {}, docBefore |-> AbsentDoc,
           repeat |-> FALSE]

(***************************************************************************)
(* manifest.rs: Manifest.                                                  *)
(***************************************************************************)
\* What Manifest::open returns for a document that File::open could read.
OpenData(d, root) ==
    IF d.state = "absent" THEN Empty(root)
    ELSE IF d.state = "json" THEN Deserialize(d)
    ELSE Empty(root)

\* Manifest::open.  path.exists() selects the branch; File::open(..).unwrap()
\* panics when the existing document cannot be opened for reading.
Open ==
    \E root \in Roots, readable \in BOOLEAN :
        /\ doc.state = "absent" => readable
        /\ lastCall' = [op |-> "open", root |-> root, handles |-> {},
                        fs |-> IF readable THEN "ok" ELSE "openFail",
                        logged |-> {}, before |-> {}, docBefore |-> doc,
                        repeat |-> FALSE]
        /\ manifest' = IF doc.state # "absent" /\ ~readable
                       THEN Panicked
                       ELSE Opened(OpenData(doc, root))
        /\ UNCHANGED <<doc, merged>>
        /\ UNCHANGED clivars

\* The file system outcomes add_repositories can meet.
FsOutcomes == {"ok", "createDirFail", "createFail", "writeFail"}

\* Mutant of WrittenDoc: the document opened for appending instead of
\* File::create, so an existing array grows by the new serialization.
WrittenDocAppend(d, data, fs) ==
    IF fs = "createDirFail" \/ fs = "createFail" THEN d
    ELSE IF fs = "writeFail" THEN GarbageDoc
    ELSE IF d.state = "json"
    THEN [d EXCEPT !.repositories = @ \o SortedSeq(data.repositories)]
    ELSE Serialize(data)

\* Manifest::get_file followed by write!: the document left on disk.
\* create_dir_all runs only when the document does not exist; its failure
\* and that of File::create leave the disk as it was.  File::create
\* truncates, so a failed write! leaves an unparsable document.
WrittenDoc(d, data, fs) ==
    IF fs = "createDirFail" \/ fs = "createFail" THEN d
    ELSE IF fs = "writeFail" THEN GarbageDoc
    ELSE Serialize(data)

\* Whether add_repositories unwinds: the two unwrap() calls of get_file.
\* A failed write! is printed and add_repositories returns normally.
AddPanics(fs) == fs = "createDirFail" \/ fs = "createFail"

\* Manifest::add_repositories.
AddRepositories ==
    /\ manifest.state = "open"
    /\ \E handles \in SeqsUpTo(AllPaths, MaxHandles), fs \in FsOutcomes :
        /\ fs = "createDirFail" => doc.state = "absent"
        /\ LET data == AddAll(Data(manifest), handles)
           IN  /\ manifest' = IF AddPanics(fs) THEN Panicked ELSE Opened(data)
               /\ doc' = WrittenDoc(doc, data, fs)
               /\ merged' = merged \cup Range(handles)
               /\ lastCall' = [op |-> "add", root |-> manifest.root_path,
                               handles |-> Range(handles), fs |-> fs,
                               logged |-> Logged(Data(manifest), handles),
                               before |-> manifest.repositories,
                               docBefore |-> doc,
                               repeat |-> /\ lastCall.op = "add"
                                          /\ lastCall.fs = "ok"
                                          /\ lastCall.handles = Range(handles)]
    /\ UNCHANGED clivars

\* Manifest::path_in_manifest: true for every path.
PathInManifest(m, p) == TRUE

InitLib ==
    /\ doc \in {AbsentDoc, GarbageDoc}
    /\ manifest = NoManifest
    /\ merged = {}
    /\ lastCall = NoCall

InitCli ==
    /\ pc = "start"
    /\ cmd = ""
    /\ option = "none"
    /\ repos = 0
    /\ idx = 0
    /\ calls = <<>>
    /\ out = <<>>
    /\ walked = FALSE
    /\ manifestFile = [exists |-> FALSE, lines |-> <<>>]

Init == InitLib /\ InitCli

NextManifest == Open \/ AddRepositories

SpecManifest == Init /\ [][NextManifest]_vars

(***************************************************************************)
(* main.rs.  Repository i of a walk has the path /a/i.  The git capability *)
(* (gitlib::GitRepo) is external: each call's result is chosen when the    *)
(* call is made.                                                           *)
(***************************************************************************)
RepoPath(i) == <<1, i>>

\* The subcommands the command line accepts (cli.rs): the command list of the
\* external interface; "" is a run with no subcommand.
Commands ==
    {"", "status", "checkout", "reset", "completions",
     "manifest generate", "manifest update", "manifest preview",
     "manifest clean"}

\* main: the match on matches.subcommand_name().  Under CMD_MANIFEST every
\* subcommand other than CMD_GENERATE becomes ManifestOption::Preview; every
\* command not named becomes RunOption::Status.
OptionOf(c) ==
    IF c = "checkout" THEN "Checkout"
    ELSE IF c = "manifest generate" THEN "Generate"
    ELSE IF c \in {"manifest update", "manifest preview", "manifest clean"}
         THEN "Preview"
    ELSE IF c = "reset" THEN "Reset"
    ELSE "Status"

LoopOptions == {"Checkout", "Reset", "Status"}

\* One printed line.
Line(i, kind, label, file) ==
    [repo |-> i, kind |-> kind, label |-> label, file |-> file]

\* One git capability call and its result.
Call(i, op, ok, entries) ==
    [repo |-> i, op |-> op, ok |-> ok, entries |-> entries]

\* FileStatus (gitlib), in the order of the match in status.
FileStatus ==
    {"Deleted", "Modified", "New", "Renamed", "Typechanged", "Unknown"}

\* Mutant of StatusLabel: the Renamed arm prints the Modified label.
StatusLabelSwapped(kind) ==
    CASE kind = "Deleted" -> "    Deleted"
      [] kind = "Modified" -> "   Modified"
      [] kind = "New" -> "        New"
      [] kind = "Renamed" -> "   Modified"
      [] kind = "Typechanged" -> "Typechanged"
      [] kind = "Unknown" -> "    Unknown"

\* status: the label printed for each FileStatus.
StatusLabel(kind) ==
    CASE kind = "Deleted" -> "    Deleted"
      [] kind = "Modified" -> "   Modified"
      [] kind = "New" -> "        New"
      [] kind = "Renamed" -> "    Renamed"
      [] kind = "Typechanged" -> "Typechanged"
      [] kind = "Unknown" -> "    Unknown"

\* The results repo.statuses() is made to return: the kinds of the changed
\* files, in order (file j of a repository is its j-th entry).
StatusLists ==
    { <<>>,
      <<"Modified", "Modified", "New">>,
      <<"Deleted", "Renamed">>,
      <<"Typechanged", "Unknown">> }

\* main, up to the call of process.  A new process starts with nothing
\* printed; the manifest file is what earlier runs left.
Main ==
    /\ pc \in {"start", "done", "panicked", "exited"}
    /\ \E c \in Commands, cwdOk \in BOOLEAN, cacheOk \in BOOLEAN :
        /\ cmd' = c
        /\ repos' = 0
        /\ idx' = 0
        /\ calls' = <<>>
        /\ walked' = FALSE
        \* the cache directory is consulted for manifest generate only
        /\ (c # "manifest generate" \/ ~cwdOk) => cacheOk
        /\ IF ~cwdOk
           THEN /\ pc' = "exited"
                /\ option' = "none"
                /\ out' = <<Line(0, "message", "Error getting working directory", 0)>>
           ELSE IF c = "manifest generate" /\ ~cacheOk
           THEN /\ pc' = "exited"
                /\ option' = "none"
                /\ out' = <<Line(0, "message", "Could not locate or create app settings directory", 0)>>
           ELSE IF c = "completions"
           THEN /\ pc' = "done"
                /\ option' = "none"
                /\ out' = <<Line(0, "message", "completions", 0)>>
           ELSE /\ pc' = "process"
                /\ option' = OptionOf(c)
                /\ out' = <<>>
    /\ UNCHANGED manifestFile
    /\ UNCHANGED libvars

\* The lines of manifest.txt: the paths whose writeln! succeeded, in order.
RECURSIVE WrittenLines(_, _, _)
WrittenLines(i, n, okSet) ==
    IF i > n THEN <<>>
    ELSE (IF i \in okSet THEN <<RepoPath(i)>> ELSE <<>>)
         \o WrittenLines(i + 1, n, okSet)

\* process with ManifestOption::Generate: the walk, then manifest_generate.
\* File::create(path).unwrap() panics on failure; a failed writeln! is
\* ignored.
ProcessGenerate ==
    /\ pc = "process"
    /\ option = "Generate"
    /\ \E n \in 0..MaxRepos, createOk \in BOOLEAN, okSet \in SUBSET (1..MaxRepos) :
        /\ okSet \subseteq 1..n
        /\ createOk \/ okSet = {}
        /\ repos' = n
        /\ walked' = TRUE
        /\ IF createOk
           THEN /\ manifestFile' = [exists |-> TRUE,
                                    lines |-> WrittenLines(1, n, okSet)]
                /\ pc' = "done"
           ELSE /\ manifestFile' = manifestFile
                /\ pc' = "panicked"
    /\ UNCHANGED <<cmd, option, idx, calls, out>>
    /\ UNCHANGED libvars

\* process with ManifestOption::Preview: the walk, then manifest_preview.
ProcessPreview ==
    /\ pc = "process"
    /\ option = "Preview"
    /\ \E n \in 0..MaxRepos :
        /\ repos' = n
        /\ out' = [i \in 1..n |-> Line(i, "path", "", 0)]
    /\ walked' = TRUE
    /\ pc' = "done"
    /\ UNCHANGED <<cmd, option, idx, calls, manifestFile>>
    /\ UNCHANGED libvars

\* process with Checkout, Reset or Status: the walk, up to the for loop.
ProcessWalk ==
    /\ pc = "process"
    /\ option \in LoopOptions
    /\ \E n \in 0..MaxRepos : repos' = n
    /\ walked' = TRUE
    /\ pc' = "loop"
    /\ UNCHANGED <<cmd, option, idx, calls, out, manifestFile>>
    /\ UNCHANGED libvars

\* Mutant of CheckoutStep: checkout(&repo, branch).unwrap(), as the Reset and
\* Status arms are written.
CheckoutStepUnwrap ==
    /\ pc = "loop"
    /\ option = "Checkout"
    /\ idx < repos
    /\ \E ok \in BOOLEAN :
        /\ calls' = Append(calls, Call(idx + 1, "checkout", ok, <<>>))
        /\ out' = IF ok THEN Append(out, Line(idx + 1, "path", "", 0)) ELSE out
        /\ pc' = IF ok THEN pc ELSE "panicked"
    /\ idx' = idx + 1
    /\ UNCHANGED <<cmd, option, repos, walked, manifestFile>>
    /\ UNCHANGED libvars

\* One iteration of the for loop with RunOption::Checkout: checkout() prints
\* the path on success; its error is replaced by "Error on checkout".
CheckoutStep ==
    /\ pc = "loop"
    /\ option = "Checkout"
    /\ idx < repos
    /\ \E ok \in BOOLEAN :
        /\ calls' = Append(calls, Call(idx + 1, "checkout", ok, <<>>))
        /\ out' = Append(out, IF ok
                              THEN Line(idx + 1, "path", "", 0)
                              ELSE Line(idx + 1, "error", "Error on checkout", 0))
    /\ idx' = idx + 1
    /\ UNCHANGED <<pc, cmd, option, repos, walked, manifestFile>>
    /\ UNCHANGED libvars

\* One iteration with RunOption::Reset: reset() calls repo.reset() and prints
\* the path and the new head; reset(&repo).unwrap() panics on its error.
ResetStep ==
    /\ pc = "loop"
    /\ option = "Reset"
    /\ idx < repos
    /\ \E ok \in BOOLEAN :
        /\ calls' = Append(calls, Call(idx + 1, "reset", ok, <<>>))
        /\ out' = IF ok THEN Append(out, Line(idx + 1, "head", "", 0)) ELSE out
        /\ pc' = IF ok THEN pc ELSE "panicked"
    /\ idx' = idx + 1
    /\ UNCHANGED <<cmd, option, repos, walked, manifestFile>>
    /\ UNCHANGED libvars

\* The lines status() prints for the entries repo.statuses() returned.
StatusLines(i, entries) ==
    IF Len(entries) = 0 THEN <<>>
    ELSE <<Line(i, "path", "", 0)>>
         \o [j \in 1..Len(entries) |->
                Line(i, "status", StatusLabel(entries[j]), j)]

\* One iteration with RunOption::Status; status(&repo).unwrap() panics when
\* repo.statuses() fails.
StatusStep ==
    /\ pc = "loop"
    /\ option = "Status"
    /\ idx < repos
    /\ \E ok \in BOOLEAN, entries \in StatusLists :
        /\ ok \/ entries = <<>>
        /\ calls' = Append(calls, Call(idx + 1, "statuses", ok, entries))
        /\ out' = IF ok THEN out \o StatusLines(idx + 1, entries) ELSE out
        /\ pc' = IF ok THEN pc ELSE "panicked"
    /\ idx' = idx + 1
    /\ UNCHANGED <<cmd, option, repos, walked, manifestFile>>
    /\ UNCHANGED libvars

\* The for loop is exhausted: process and main return.  (The loop's last arm,
\* panic!("Unhandled run option"), is never taken: process returns before the
\* loop for RunOption::Manifest.)
ProcessReturn ==
    /\ pc = "loop"
    /\ idx = repos
    /\ pc' = "done"
    /\ UNCHANGED <<cmd, option, repos, idx, calls, out, walked, manifestFile>>
    /\ UNCHANGED libvars

Running ==
    \/ ProcessGenerate
    \/ ProcessPreview
    \/ ProcessWalk
    \/ CheckoutStep
    \/ ResetStep
    \/ StatusStep
    \/ ProcessReturn

Next ==
    \/ Main
    \/ ProcessGenerate
    \/ ProcessPreview
    \/ ProcessWalk
    \/ CheckoutStep
    \/ ResetStep
    \/ StatusStep
    \/ ProcessReturn

Spec == Init /\ [][Next]_vars

\* A started process keeps running until it returns or panics; nothing
\* obliges the user to start another.
FairSpec == Spec /\ WF_vars(Running)

(***************************************************************************)
(* Claims about main.rs, checked under Spec (C2 under FairSpec).           *)
(***************************************************************************)
Attempted(i) == \E k \in 1..Len(calls) : calls[k].repo = i

\* C1: for status, reset and checkout, a failed git capability call on one
\* repository never keeps the others from being processed: when the run has
\* ended, every repository of the sequence had its operation attempted.
C1_FailureNeverAborts ==
    (option \in LoopOptions /\ pc \in {"done", "panicked"})
        => \A i \in 1..repos : Attempted(i)

\* The outcomes of a finished checkout run: one line per repository, the
\* path for each repository whose checkout succeeded and the error report for
\* each one whose checkout failed.
CheckoutOutcomes ==
    /\ Len(out) = repos
    /\ Len(calls) = repos
    /\ \A i \in 1..repos :
        /\ calls[i] = Call(i, "checkout", calls[i].ok, <<>>)
        /\ Cardinality({k \in 1..Len(out) : out[k].repo = i}) = 1
        /\ \E k \in 1..Len(out) :
            out[k] = IF calls[i].ok
                     THEN [repo |-> i, kind |-> "path", label |-> "", file |-> 0]
                     ELSE [repo |-> i, kind |-> "error",
                           label |-> "Error on checkout", file |-> 0]

\* C2: a checkout run over N repositories of which K fail always terminates
\* with exactly N outcomes, N-K paths and K reported failures, none lost or
\* duplicated.
C2_CheckoutYieldsAllOutcomes ==
    (pc = "process" /\ option = "Checkout") ~> (pc = "done" /\ CheckoutOutcomes)

\* C2 witness: a finished checkout run of at least two repositories with a
\* failure followed by a success.
C2_Witness ==
    /\ pc = "done"
    /\ option = "Checkout"
    /\ repos >= 2
    /\ CheckoutOutcomes
    /\ \E i \in 1..repos, j \in 1..repos : i < j /\ ~calls[i].ok /\ calls[j].ok

\* C3: in a reset run, reset is called on a repository only after its status
\* check succeeded and either it has no pending changes or removing untracked
\* files succeeded; a repository whose check or cleanup failed gets no reset
\* call and no output, and the process does not crash.
C3_ResetOnlyAfterStatusCheck ==
    option = "Reset" =>
        /\ pc # "panicked"
        /\ \A k \in 1..Len(calls) :
            calls[k].op = "reset" =>
                \E j \in 1..(k - 1) :
                    /\ calls[j].repo = calls[k].repo
                    /\ calls[j].op = "statuses"
                    /\ calls[j].ok
                    /\ \/ Len(calls[j].entries) = 0
                       \/ \E m \in (j + 1)..(k - 1) :
                            /\ calls[m].repo = calls[k].repo
                            /\ calls[m].op = "remove_untracked"
                            /\ calls[m].ok
        /\ \A j \in 1..Len(calls) :
            (calls[j].op \in {"statuses", "remove_untracked"} /\ ~calls[j].ok)
                => /\ \A k \in 1..Len(calls) :
                        ~(calls[k].repo = calls[j].repo /\ calls[k].op = "reset")
                   /\ \A k \in 1..Len(out) : out[k].repo # calls[j].repo

ManifestFileEmpty == ~manifestFile.exists \/ manifestFile.lines = <<>>

\* C6: a status, checkout or reset run walks the filesystem exactly when the
\* manifest is empty or absent; with a non-empty manifest the repositories
\* come from the cached paths and no walk is made.
C6_SelectionPolicy ==
    (option \in LoopOptions /\ pc \in {"loop", "done", "panicked"})
        => (walked <=> ManifestFileEmpty)

\* C7: after manifest clean has run the manifest document does not exist, and
\* the command ends without error whether or not the document was there.
C7_CleanRemovesDocument ==
    (cmd = "manifest clean" /\ pc \in {"done", "panicked"})
        => (pc = "done" /\ ~manifestFile.exists)

\* The label of the closed set that names each status kind.
KindLabel(kind) ==
    CASE kind = "Deleted" -> "deleted"
      [] kind = "Modified" -> "modified"
      [] kind = "New" -> "new"
      [] kind = "Renamed" -> "renamed"
      [] kind = "Typechanged" -> "type-changed"
      [] kind = "Unknown" -> "unknown"

\* The label of the closed set a printed (padded, capitalised) label spells.
PrintedLabel(text) ==
    CASE text = "    Deleted" -> "deleted"
      [] text = "   Modified" -> "modified"
      [] text = "        New" -> "new"
      [] text = "    Renamed" -> "renamed"
      [] text = "Typechanged" -> "type-changed"
      [] text = "    Unknown" -> "unknown"
      [] OTHER -> "none"

LinesOf(i) == SelectSeq(out, LAMBDA l : l.repo = i)
LabelledLinesOf(i) == SelectSeq(out, LAMBDA l : l.repo = i /\ l.kind = "status")

\* C8: in a status run, a repository with no pending changes prints nothing,
\* and a repository with k > 0 changed files prints exactly k labelled lines,
\* the j-th carrying the label of the j-th file's status kind and that file.
C8_StatusLines ==
    option = "Status" =>
        \A c \in 1..Len(calls) :
            (calls[c].op = "statuses" /\ calls[c].ok) =>
                LET i == calls[c].repo
                    entries == calls[c].entries
                    labelled == LabelledLinesOf(i)
                IN  /\ Len(entries) = 0 => LinesOf(i) = <<>>
                    /\ Len(labelled) = Len(entries)
                    /\ \A j \in 1..Len(entries) :
                        /\ PrintedLabel(labelled[j].label) = KindLabel(entries[j])
                        /\ labelled[j].file = j

\* C8 witness: a finished status run in which one repository had two modified
\* files and a new one and another had no change.
C8_Witness ==
    /\ pc = "done"
    /\ option = "Status"
    /\ \E a \in 1..Len(calls), b \in 1..Len(calls) :
        /\ calls[a].ok /\ calls[a].entries = <<"Modified", "Modified", "New">>
        /\ Len(LabelledLinesOf(calls[a].repo)) = 3
        /\ calls[b].ok /\ calls[b].entries = <<>>

(***************************************************************************)
(* Claims about manifest.rs, checked under SpecManifest.                   *)
(***************************************************************************)
\* C4: Manifest::open never raises, and for a missing, unreadable or
\* unparsable document it returns a manifest with no entries and the root it
\* was given.
C4_OpenNeverRaises ==
    lastCall.op = "open" =>
        /\ manifest.state = "open"
        /\ (doc.state # "json" \/ lastCall.fs # "ok")
            => (manifest.repositories = {} /\ manifest.root_path = lastCall.root)

\* root.join(rel) for a relative path: the components of root, then rel's.
Join(base, rel) == base \o rel

\* p is root or lies below it.
AtOrUnder(root, p) == Len(root) <= Len(p) /\ SubSeq(p, 1, Len(root)) = root
\* p lies below root and is not root.
StrictlyUnder(root, p) == AtOrUnder(root, p) /\ p # root

\* C5 (as stated): every stored relative path joined to the root is a merged
\* repository strictly under the root; a handle outside the root or equal to
\* it is skipped and leaves the stored set as it was.
C5_ContainmentStrict ==
    manifest.state = "open" =>
        /\ \A rel \in manifest.repositories :
            LET p == Join(manifest.root_path, rel)
            IN  p \in merged /\ StrictlyUnder(manifest.root_path, p)
        /\ lastCall.op = "add" =>
            /\ \A h \in lastCall.handles :
                ~StrictlyUnder(manifest.root_path, h) <=> h \in lastCall.logged
            /\ \A rel \in manifest.repositories \ lastCall.before :
                Join(manifest.root_path, rel) \in lastCall.handles \ lastCall.logged
            /\ lastCall.handles \subseteq lastCall.logged
                => manifest.repositories = lastCall.before

\* C5 (amended): every stored relative path joined to the root is a merged
\* repository that is the root or lies under it; a handle outside the root is
\* logged and skipped and leaves the stored set as it was; every other
\* handle, the root itself included, is stored.
C5_Containment ==
    manifest.state = "open" =>
        /\ \A rel \in manifest.repositories :
            LET p == Join(manifest.root_path, rel)
            IN  p \in merged /\ AtOrUnder(manifest.root_path, p)
        /\ lastCall.op = "add" =>
            /\ \A h \in lastCall.handles :
                ~AtOrUnder(manifest.root_path, h) <=> h \in lastCall.logged
            /\ \A rel \in manifest.repositories \ lastCall.before :
                Join(manifest.root_path, rel) \in lastCall.handles \ lastCall.logged
            /\ \A h \in lastCall.handles \ lastCall.logged :
                \E rel \in manifest.repositories :
                    Join(manifest.root_path, rel) = h
            /\ lastCall.handles \subseteq lastCall.logged
                => manifest.repositories = lastCall.before

\* C5 witness: an add call that stored a repository below the root, stored
\* the root itself, and skipped a handle outside the root.
C5_Witness ==
    /\ manifest.state = "open"
    /\ lastCall.op = "add"
    /\ lastCall.logged # {}
    /\ <<>> \in manifest.repositories
    /\ \E rel \in manifest.repositories : rel # <<>>
    /\ \E h \in lastCall.handles : StrictlyUnder(manifest.root_path, h)

\* C9: merging a repository set that was just merged leaves the stored set
\* and the persisted document as the first merge left them, and an add call
\* whose handles are all stored already changes neither.
C9_MergeIdempotent ==
    (lastCall.op = "add" /\ lastCall.fs = "ok") =>
        /\ lastCall.repeat =>
            /\ manifest.repositories = lastCall.before
            /\ doc = lastCall.docBefore
        /\ (\A h \in lastCall.handles \ lastCall.logged :
                \E rel \in lastCall.before : Join(manifest.root_path, rel) = h)
            => /\ manifest.repositories = lastCall.before
               /\ doc = Serialize(Data(manifest))
               /\ Deserialize(doc).repositories = lastCall.before

\* C9 witness: the second of two successive merges of the same set, which
\* holds a repository under the root.
C9_Witness ==
    /\ lastCall.op = "add"
    /\ lastCall.fs = "ok"
    /\ lastCall.repeat
    /\ lastCall.handles \ lastCall.logged # {}
    /\ Len(doc.repositories) >= 2

\* C10: in add_repositories a failure to create the parent directories or to
\* write the document aborts the command, while a handle outside the root
\* is logged and the command goes on.
C10_FsErrorsFatal ==
    lastCall.op = "add" =>
        /\ lastCall.fs \in {"createDirFail", "createFail", "writeFail"}
            => manifest.state = "panicked"
        /\ (lastCall.fs = "ok" /\ lastCall.logged # {})
            => manifest.state = "open"

====
